---------------------------- MODULE Spec2Model ----------------------------
(***************************************************************************)
(* build_networkx of src/visualizer/main.py: the decomposition of a nested *)
(* conversation record into a main graph (walk) and a recursively nested   *)
(* map of sub-graph documents (build_subgraph).                            *)
(*                                                                         *)
(* Python values are written as follows.                                   *)
(*   str            a TLA+ string; the one-character ellipsis U+2026 is    *)
(*                  written "~" and the wrench emoji of the toolUse marker *)
(*                  is left out (the module text is ASCII)                 *)
(*   dict           a record / function on its keys; an absent key is      *)
(*                  absent from the DOMAIN                                 *)
(*   list           a sequence                                             *)
(*   None / a str   <<>> / <<s>>  (for the optional `parent` argument)     *)
(* An input node is a record with the keys it has in the JSON document,    *)
(* its children (pointingToNode) given as indices into the tree.           *)
(* Every graph node carries two ghost fields the program does not have:    *)
(* kind ("entry", "content", "result") and src (the index of the input     *)
(* node whose processing built the node).                                  *)
(***************************************************************************)
EXTENDS Integers, Sequences, FiniteSets, TLC

VARIABLES
    tree,                     \* the input document: index -> input node (index 1 is root)
    G,                        \* the nx.DiGraph of build_networkx: [nodes, edges]
    function_call_subgraphs,  \* the top-level SubgraphMap: node id -> document
    stack,                    \* the call stack of walk / build_subgraph activations
    ret,                      \* <<>> or <<r>>: what the last build_subgraph call returned
    calls,                    \* ghost: every walk / build_subgraph invocation, in order
    nodes_data,               \* create_simple_html_graph: the nodes handed to the renderer
    edges_data,               \* create_simple_html_graph: the edges handed to the renderer
    phase,                    \* "init", "running", then "error" or "done", "rendered"
    modalStack,               \* the page's script: the stack of open modals
    display,                  \* the page's script: modal type -> its element is shown
    choiceNodeId,             \* the page's script: <<>> (null) or <<id>>, the choice context
    stray                     \* ghost: choiceFullContent has replaced an entry that was no choice

\* the state of the page's script
page == <<modalStack, display, choiceNodeId, stray>>

\* the state of build_networkx and create_simple_html_graph
build == <<tree, G, function_call_subgraphs, stack, ret, calls, nodes_data, edges_data, phase>>

vars == <<tree, G, function_call_subgraphs, stack, ret, calls, nodes_data, edges_data, phase,
          modalStack, display, choiceNodeId, stray>>

---------------------------------------------------------------------------
(* Bounds of the model.                                                    *)

\* largest input tree with positional ids and the structural node kinds
MaxNodes == 5
\* largest input tree whose nodes draw their fields from the full catalogue
MaxFieldNodes == 3
\* largest input tree in which one node's id is replaced by an unusual one
MaxIdNodes == 4
\* the interpreter's limit on nested activations (1000 in CPython), scaled
\* down so that the deepest input trees exceed it
RecursionLimit == 4
\* the deepest modal stack the page's events build
MaxModalDepth == 3

---------------------------------------------------------------------------
(* Program constants.                                                      *)

MAX_LABEL_CHARS == 40

MAIN_START == "MAIN_START"

Ellipsis == "~"

ToolUseMarker == "<b>toolUse: yes</b>"

None == <<>>

Some(x) == <<x>>

---------------------------------------------------------------------------
(* Strings.                                                                *)

RECURSIVE Rep(_, _)
Rep(c, n) == IF n = 0 THEN "" ELSE c \o Rep(c, n - 1)

\* "\n".join(parts)
RECURSIVE JoinLines(_)
JoinLines(parts) ==
    IF parts = <<>> THEN ""
    ELSE IF Len(parts) = 1 THEN parts[1]
    ELSE parts[1] \o "\n" \o JoinLines(Tail(parts))

\* str.upper() on the role strings the inputs use
Upper(role) ==
    CASE role = "user" -> "USER"
      [] role = "assistant" -> "ASSISTANT"
      [] role = "system" -> "SYSTEM"
      [] role = "function_call" -> "FUNCTION_CALL"
      [] role = "unknown" -> "UNKNOWN"
      [] role = "tool" -> "TOOL"
      [] role = "start" -> "START"
      [] OTHER -> role

\* dict.get(key, default)
Get(d, key, default) == IF key \in DOMAIN d THEN d[key] ELSE default

\* value[:MAX_LABEL_CHARS]
Prefix(value) ==
    IF Len(value) > MAX_LABEL_CHARS THEN SubSeq(value, 1, MAX_LABEL_CHARS) ELSE value

\* len(value) > MAX_LABEL_CHARS
IsTruncated(value) == Len(value) > MAX_LABEL_CHARS

\* f"{value[:MAX_LABEL_CHARS]}{'~' if len(value) > MAX_LABEL_CHARS else ''}"
Truncate(value) == Prefix(value) \o (IF IsTruncated(value) THEN Ellipsis ELSE "")


---------------------------------------------------------------------------
(* json.loads / json.dumps(separators=(",", ":")) on toolArgs, restricted  *)
(* to the JSON the inputs use: an object with one member whose key and     *)
(* value are strings without escapes, with optional spaces between the     *)
(* tokens.  Any other text the inputs use is not JSON at all, and          *)
(* json.loads raises JSONDecodeError on it.                                *)

Char(s, i) == IF i >= 1 /\ i <= Len(s) THEN SubSeq(s, i, i) ELSE ""

\* the first position at or after i that holds no space
RECURSIVE SkipWs(_, _)
SkipWs(s, i) == IF Char(s, i) = " " THEN SkipWs(s, i + 1) ELSE i

\* the position of the first double quote at or after i (0: none)
RECURSIVE FindQuote(_, _)
FindQuote(s, i) ==
    IF i > Len(s) THEN 0
    ELSE IF Char(s, i) = "\"" THEN i
    ELSE FindQuote(s, i + 1)

\* a string literal starting at i: the position of its closing quote (0: none)
StringEnd(s, i) == IF Char(s, i) = "\"" THEN FindQuote(s, i + 1) ELSE 0

\* json.loads(s): <<>> when it raises JSONDecodeError, else <<[key, value]>>
JsonLoads(s) ==
    LET a  == SkipWs(s, 1)
        k1 == SkipWs(s, a + 1)
        k2 == StringEnd(s, k1)
        c  == SkipWs(s, k2 + 1)
        v1 == SkipWs(s, c + 1)
        v2 == StringEnd(s, v1)
        b  == SkipWs(s, v2 + 1)
        e  == SkipWs(s, b + 1)
    IN  IF /\ Char(s, a) = "{"
           /\ k2 # 0
           /\ Char(s, c) = ":"
           /\ v2 # 0
           /\ Char(s, b) = "}"
           /\ e = Len(s) + 1
        THEN Some([key |-> SubSeq(s, k1, k2), value |-> SubSeq(s, v1, v2)])
        ELSE None

\* json.dumps(parsed, indent=None, separators=(",", ":"))
JsonDumps(parsed) == "{" \o parsed.key \o ":" \o parsed.value \o "}"

---------------------------------------------------------------------------
(* Presentation attributes.                                                *)

ROLE_SHAPES ==
    [system |-> "box", user |-> "circle", assistant |-> "ellipse",
     function_call |-> "diamond", start |-> "star"]

\* get_color_for_name: the first six hex digits of md5(name), kept symbolic
get_color_for_name(name) ==
    IF name = "" THEN "#CCCCCC" ELSE "#md5(" \o name \o ")[:6]"

\* get_text_color_for_background: white below luminance 0.5, else black.  The
\* luminances of the three fixed colours are 0.32 (#E67E22), 0.29 (#28A745)
\* and 0.60 (#CCCCCC); that of a hashed colour is kept symbolic.
get_text_color_for_background(bg_color) ==
    CASE bg_color = "#E67E22" -> "#FFFFFF"
      [] bg_color = "#28A745" -> "#FFFFFF"
      [] bg_color = "#CCCCCC" -> "#000000"
      [] OTHER -> "text(" \o bg_color \o ")"

\* the "Args:" line of walk's label (lines 320-330 and 376-388)
ArgsLine(tool_args) ==
    LET parsed == JsonLoads(tool_args)
    IN  IF parsed # None
        THEN "<b>Args: " \o Truncate(JsonDumps(parsed[1])) \o "</b>"
        ELSE "<b>Args: " \o Truncate(tool_args) \o "</b>"

\* the label parts both label builders of walk share
WalkLabelParts(role, tool_name, tool_args, marker, name, truncated_value) ==
    <<"<b>" \o Upper(role) \o "</b>">>
    \o (IF role = "function_call" /\ tool_name # ""
        THEN <<"<b>Tool: " \o tool_name \o "</b>">> ELSE <<>>)
    \o (IF role = "function_call" /\ tool_args # ""
        THEN <<ArgsLine(tool_args)>> ELSE <<>>)
    \o marker
    \o (IF name # "" THEN <<"<i>" \o name \o "</i>">> ELSE <<>>)
    \o (IF truncated_value # "" THEN <<truncated_value>> ELSE <<>>)

\* walk's first label (lines 317-336): no toolUse marker
WalkLabel(role, tool_name, tool_args, name, truncated_value) ==
    JoinLines(WalkLabelParts(role, tool_name, tool_args, <<>>, name, truncated_value))

\* walk's regenerated label (lines 373-395): the marker after the Args line
WalkUpdatedLabel(role, tool_name, tool_args, name, truncated_value) ==
    JoinLines(WalkLabelParts(role, tool_name, tool_args, <<ToolUseMarker>>,
                             name, truncated_value))

\* faulty variant of SubgraphLabel: the marker after the name line
SubgraphLabelMarkerAfterName(role, tool_name, has_subgraph, name, truncated_value) ==
    JoinLines(
        <<"<b>" \o Upper(role) \o "</b>">>
        \o (IF role = "function_call" /\ tool_name # ""
            THEN <<"<b>Tool: " \o tool_name \o "</b>">> ELSE <<>>)
        \o (IF name # "" THEN <<"<i>" \o name \o "</i>">> ELSE <<>>)
        \o (IF has_subgraph THEN <<ToolUseMarker>> ELSE <<>>)
        \o (IF truncated_value # "" THEN <<truncated_value>> ELSE <<>>))

\* build_subgraph's label (lines 157-167)
SubgraphLabel(role, tool_name, has_subgraph, name, truncated_value) ==
    JoinLines(
        <<"<b>" \o Upper(role) \o "</b>">>
        \o (IF role = "function_call" /\ tool_name # ""
            THEN <<"<b>Tool: " \o tool_name \o "</b>">> ELSE <<>>)
        \o (IF has_subgraph THEN <<ToolUseMarker>> ELSE <<>>)
        \o (IF name # "" THEN <<"<i>" \o name \o "</i>">> ELSE <<>>)
        \o (IF truncated_value # "" THEN <<truncated_value>> ELSE <<>>))

---------------------------------------------------------------------------
(* The input trees.  Nodes are numbered in preorder, so a child list is    *)
(* in document order; p[i] is the parent of node i.                        *)

PosId(i) == IF i = 1 THEN "r" ELSE SubSeq("abcdefghijklmnopq", i - 1, i - 1)

RECURSIVE AncOrSelf(_, _)
AncOrSelf(p, j) == IF j = 1 THEN {1} ELSE {j} \cup AncOrSelf(p, p[j])

\* the parent vectors of the ordered trees with n nodes
ParentVecs(n) ==
    {p \in [2..n -> 1..(n - 1)] : \A i \in 2..n : p[i] \in AncOrSelf(p, i - 1)}

ChildrenOf(p, n, i) ==
    SelectSeq([k \in 1..n |-> k], LAMBDA k : k >= 2 /\ p[k] = i)

MkTree(n, p, kinds, ids) ==
    [i \in 1..n |->
        kinds[i] @@ [nodeId |-> ids[i], pointingToNode |-> ChildrenOf(p, n, i)]]

\* the two nodes of the example of the specification
KindUser == [role |-> "user", value |-> "hello"]

KindCall ==
    [role |-> "function_call", name |-> "agent", toolName |-> "search",
     toolArgs |-> "{\"q\":\"x\"}", toolResult |-> "42"]

StructKinds == {KindUser, KindCall}

FieldKinds ==
    { KindUser,
      KindCall,
      \* a role outside the known ones, a long value, and a toolResult on a
      \* node that is no function call
      [role |-> "tool", value |-> Rep("v", 41), name |-> "agent",
       toolResult |-> "ignored"],
      \* a function call with long unparseable toolArgs and an empty toolResult
      [role |-> "function_call", value |-> "short", name |-> "",
       toolArgs |-> Rep("a", 41), toolResult |-> ""],
      \* a function call with a long value, spaced JSON toolArgs, no toolResult
      [role |-> "function_call", value |-> Rep("v", 41), name |-> "agent",
       toolName |-> "search", toolArgs |-> "{\"q\": \"x\"}"],
      \* no role, no name, a value of exactly 40 characters
      [value |-> Rep("v", 40)],
      \* a function call with long JSON toolArgs and a long toolResult
      [role |-> "function_call", name |-> "other",
       toolArgs |-> "{\"q\":\"" \o Rep("x", 40) \o "\"}",
       toolResult |-> Rep("r", 41)] }

PosIds(n) == [i \in 1..n |-> PosId(i)]

\* ids a node may carry instead of its own: the empty string, the id of the
\* root or of its first child, or an id the program synthesizes (the main
\* start node, the entry node or the result node of the root's first child)
UnusualIds(j) ==
    {"", MAIN_START, PosId(1), PosId(2),
     "START_" \o PosId(2), PosId(2) \o "_result"} \ {PosId(j)}

\* t is a tree of at most maxn nodes with positional ids and kinds of kindset
IsTreeOver(t, maxn, kindset) ==
    \E n \in 1..maxn : \E p \in ParentVecs(n) : \E k \in [1..n -> kindset] :
        t = MkTree(n, p, k, PosIds(n))

\* t is a tree of at most maxn nodes one of which carries an unusual id
IsIdTree(t, maxn) ==
    \E n \in 2..maxn : \E p \in ParentVecs(n) : \E k \in [1..n -> StructKinds] :
        \E j \in 1..n : \E id \in UnusualIds(j) :
            t = MkTree(n, p, k, [PosIds(n) EXCEPT ![j] = id])

IsInputTree(t) ==
    \/ IsTreeOver(t, MaxNodes, StructKinds)
    \/ IsTreeOver(t, MaxFieldNodes, FieldKinds)
    \/ IsIdTree(t, MaxIdNodes)

N == Len(tree)

\* node.get("role", "unknown") and the other fields read with a default
RoleOf(node) == Get(node, "role", "unknown")

NameOf(node) == Get(node, "name", "")

\* child.get("role") == "function_call"
IsFunctionCall(child) == "role" \in DOMAIN child /\ child.role = "function_call"

\* faulty variant of FunctionCallChildren: every child is taken
FunctionCallChildrenAll(node) == Get(node, "pointingToNode", <<>>)

\* the two child lists of lines 149-153 / 232-236 / 354-361
FunctionCallChildren(node) ==
    SelectSeq(Get(node, "pointingToNode", <<>>), LAMBDA c : IsFunctionCall(tree[c]))

\* faulty variant of RegularChildren: a child without a role is dropped
RegularChildrenWithRole(node) ==
    SelectSeq(Get(node, "pointingToNode", <<>>),
              LAMBDA c : "role" \in DOMAIN tree[c] /\ ~IsFunctionCall(tree[c]))

\* faulty variant of RegularChildren: the role test left out, every child is regular
RegularChildrenAll(node) == Get(node, "pointingToNode", <<>>)

RegularChildren(node) ==
    SelectSeq(Get(node, "pointingToNode", <<>>), LAMBDA c : ~IsFunctionCall(tree[c]))

---------------------------------------------------------------------------
(* Graph nodes, edges and documents.                                       *)

EmptyMap == <<>>

EmptyDoc == [nodes |-> <<>>, edges |-> <<>>, subgraphs |-> EmptyMap]

\* `if parent:` -- neither None nor the empty string
Truthy(parent) == parent # None /\ parent[1] # ""

\* the main graph's start node (lines 96-105)
MainStartNode ==
    [id |-> MAIN_START, role |-> "start", label |-> "", name |-> "main_start",
     full_value |-> "Entry point for the main conversation graph",
     is_truncated |-> FALSE, has_subgraph |-> FALSE, kind |-> "entry", src |-> 0]

\* nx.DiGraph.add_node(id, **attrs): a new node, or the attributes of the
\* node that has this id already, updated
AddNode(g, id, attrs) ==
    IF \E k \in 1..Len(g.nodes) : g.nodes[k].id = id
    THEN [g EXCEPT !.nodes =
            [k \in 1..Len(g.nodes) |->
                IF g.nodes[k].id = id THEN attrs @@ g.nodes[k] ELSE g.nodes[k]]]
    ELSE [g EXCEPT !.nodes = Append(@, attrs @@ [id |-> id])]

\* nx.DiGraph.add_edge(u, v): no parallel edges
AddEdge(g, u, v) ==
    IF \E k \in 1..Len(g.edges) : g.edges[k] = [from |-> u, to |-> v]
    THEN g
    ELSE [g EXCEPT !.edges = Append(@, [from |-> u, to |-> v])]

\* G.nodes[id][key] = val
SetNodeAttr(g, id, key, val) ==
    [g EXCEPT !.nodes =
        [k \in 1..Len(g.nodes) |->
            IF g.nodes[k].id = id THEN (key :> val) @@ g.nodes[k] ELSE g.nodes[k]]]

\* walk's node attributes (lines 304-349)
WalkNodeAttrs(node, src) ==
    LET role  == RoleOf(node)
        value == Get(node, "value", "")
    IN  [role |-> role,
         label |-> WalkLabel(role, Get(node, "toolName", ""), Get(node, "toolArgs", ""),
                             NameOf(node), Truncate(value)),
         name |-> NameOf(node),
         full_value |-> value,
         is_truncated |-> IsTruncated(value),
         kind |-> "content", src |-> src]

\* walk, lines 342-351: the node, and the edge from a truthy parent
WalkAdd(g, node, src, parent) ==
    LET g1 == AddNode(g, node.nodeId, WalkNodeAttrs(node, src))
    IN  IF Truthy(parent) THEN AddEdge(g1, parent[1], node.nodeId) ELSE g1

\* walk, lines 368-396 and 416-418: has_subgraph, and the regenerated label
WalkMarked(g, node, has_fc) ==
    IF has_fc
    THEN SetNodeAttr(
            SetNodeAttr(g, node.nodeId, "has_subgraph", TRUE),
            node.nodeId, "label",
            WalkUpdatedLabel(RoleOf(node), Get(node, "toolName", ""),
                             Get(node, "toolArgs", ""), NameOf(node),
                             Truncate(Get(node, "value", ""))))
    ELSE SetNodeAttr(g, node.nodeId, "has_subgraph", FALSE)

SubgraphStartId(nid) == "START_" \o nid

ResultNodeId(nid) == nid \o "_result"

\* the entry node of a sub-graph (lines 119-129)
StartNodeConfig(nid, src) ==
    [id |-> SubgraphStartId(nid), label |-> "", color |-> "#FF1493", shape |-> "star",
     font |-> [size |-> 14, color |-> "#FFFFFF"], name |-> "subgraph_start",
     full_value |-> "Entry point for sub-graph starting with " \o nid,
     is_truncated |-> FALSE, has_subgraph |-> FALSE, kind |-> "entry", src |-> src]

\* lines 115-130: the entry node, only when parent is None
EntryNodes(node, parent, src) ==
    IF parent = None THEN <<StartNodeConfig(node.nodeId, src)>> ELSE <<>>

\* faulty variant of SubgraphValue: the value field whatever the role
SubgraphValuePlain(node) == Get(node, "value", "")

\* the text build_subgraph shows and measures (lines 134-138)
SubgraphValue(node) ==
    IF RoleOf(node) = "function_call"
    THEN Get(node, "toolArgs", "")
    ELSE Get(node, "value", "")

\* faulty variant of HasSubgraph: any child at all counts
HasSubgraphAnyChild(node) == Len(Get(node, "pointingToNode", <<>>)) > 0

\* has_subgraph of build_subgraph (lines 149-154)
HasSubgraph(node) == Len(FunctionCallChildren(node)) > 0

\* the node_config of build_subgraph (lines 132-206)
NodeConfig(node, src) ==
    LET role  == RoleOf(node)
        value == SubgraphValue(node)
        name  == NameOf(node)
        has_subgraph == HasSubgraph(node)
        color == IF role = "function_call" THEN "#E67E22" ELSE get_color_for_name(name)
        shape == IF role = "function_call" THEN "box"
                 ELSE Get(ROLE_SHAPES, role, "ellipse")
        base  == [id |-> node.nodeId,
                  label |-> SubgraphLabel(role, Get(node, "toolName", ""), has_subgraph,
                                          name, Truncate(value)),
                  color |-> color, shape |-> shape,
                  font |-> [size |-> 14, color |-> get_text_color_for_background(color)],
                  name |-> name, full_value |-> value,
                  is_truncated |-> IsTruncated(value),
                  has_subgraph |-> has_subgraph, role |-> role,
                  kind |-> "content", src |-> src]
        tool  == IF role = "function_call"
                 THEN [toolName |-> Get(node, "toolName", ""),
                       toolArgs |-> Get(node, "toolArgs", ""),
                       toolResult |-> Get(node, "toolResult", ""),
                       toolCallIteration |-> Get(node, "toolCallIteration", 1)]
                 ELSE <<>>
        border == IF has_subgraph
                  THEN [borderWidth |-> 3, borderColor |-> "#FF0000"] ELSE <<>>
    IN  border @@ tool @@ base

\* lines 210-214: the edge from the entry node, when there is one
EntryEdges(node, parent) ==
    IF parent = None
    THEN <<[from |-> SubgraphStartId(node.nodeId), to |-> node.nodeId,
            arrows |-> "to", dashes |-> FALSE]>>
    ELSE <<>>

\* faulty variant of ParentEdges: the edge from the parent is always solid
ParentEdgesSolid(node, parent, parent_name) ==
    IF Truthy(parent)
    THEN <<[from |-> parent[1], to |-> node.nodeId, arrows |-> "to",
            dashes |-> FALSE]>>
    ELSE <<>>

\* lines 216-226: the edge from a truthy parent, dashed across a name change
ParentEdges(node, parent, parent_name) ==
    IF Truthy(parent)
    THEN <<[from |-> parent[1], to |-> node.nodeId, arrows |-> "to",
            dashes |-> (parent_name # NameOf(node))]>>
    ELSE <<>>

\* faulty variant of HasResult: the role is not looked at
HasResultAnyRole(node) == Get(node, "toolResult", "") # ""

\* line 266: `role == "function_call" and tool_result`
HasResult(node) ==
    RoleOf(node) = "function_call" /\ Get(node, "toolResult", "") # ""

\* the result node (lines 267-289)
ResultNodeConfig(node, src) ==
    LET tool_result == Get(node, "toolResult", "")
    IN  [id |-> ResultNodeId(node.nodeId),
         label |-> "<b>TOOL RESULT</b>\n" \o Truncate(tool_result),
         color |-> "#28A745", shape |-> "box",
         font |-> [size |-> 14, color |-> get_text_color_for_background("#28A745")],
         name |-> "tool_result", full_value |-> tool_result,
         is_truncated |-> IsTruncated(tool_result), has_subgraph |-> FALSE,
         kind |-> "result", src |-> src]

\* lines 265-299: the result node and its edge from last_node_id
ResultNodes(node, src) ==
    IF HasResult(node) THEN <<ResultNodeConfig(node, src)>> ELSE <<>>

\* faulty variant of ResultEdges: the result hangs off the entry node
ResultEdgesFromStart(node, last_node_id) ==
    IF HasResult(node)
    THEN <<[from |-> SubgraphStartId(node.nodeId), to |-> ResultNodeId(node.nodeId),
            arrows |-> "to", dashes |-> FALSE]>>
    ELSE <<>>

ResultEdges(node, last_node_id) ==
    IF HasResult(node)
    THEN <<[from |-> last_node_id, to |-> ResultNodeId(node.nodeId),
            arrows |-> "to", dashes |-> FALSE]>>
    ELSE <<>>

\* dict.update: the entries of `more` replace those of `map` with the same key
Update(map, more) == more @@ map

\* faulty variant of ExtendDoc: the returned lists go in front
ExtendDocFront(doc, r) ==
    [nodes |-> r.nodes \o doc.nodes,
     edges |-> r.edges \o doc.edges,
     subgraphs |-> Update(doc.subgraphs, r.nested_subgraphs)]

\* faulty variant of ExtendDoc: the returned lists replace the collected ones
ExtendDocReplace(doc, r) ==
    [nodes |-> r.nodes,
     edges |-> r.edges,
     subgraphs |-> Update(doc.subgraphs, r.nested_subgraphs)]

\* lines 259-261 / 410-413: one function-call child's return value merged into
\* the document of its parent
ExtendDoc(doc, r) ==
    [nodes |-> doc.nodes \o r.nodes,
     edges |-> doc.edges \o r.edges,
     subgraphs |-> Update(doc.subgraphs, r.nested_subgraphs)]

\* faulty variant of LastNodeId: the head of the child's list, not its tail
LastNodeIdFirst(last_node_id, child_nodes) ==
    IF child_nodes # <<>> THEN child_nodes[1].id ELSE last_node_id

\* lines 248-249: the attachment point after a regular child returned
LastNodeId(last_node_id, child_nodes) ==
    IF child_nodes # <<>> THEN child_nodes[Len(child_nodes)].id ELSE last_node_id

\* faulty variant of NestedWithOwn: line 263 left out
NestedWithoutOwn(nested_subgraphs, node, subgraph_data) == nested_subgraphs

\* lines 252-263: the nested entry under this node's own id
NestedWithOwn(nested_subgraphs, node, subgraph_data) ==
    IF Len(FunctionCallChildren(node)) > 0
    THEN Update(nested_subgraphs, node.nodeId :> subgraph_data)
    ELSE nested_subgraphs

---------------------------------------------------------------------------
(* The call stack.  The running activation is the last frame.              *)

WalkFrame(node, parent) ==
    [fn |-> "walk", node |-> node, parent |-> parent, pc |-> "enter",
     function_call_children |-> <<>>, regular_children |-> <<>>,
     i |-> 1, j |-> 1, subgraph_data |-> EmptyDoc]

BuildFrame(node, parent, parent_name) ==
    [fn |-> "build_subgraph", node |-> node, parent |-> parent,
     parent_name |-> parent_name, pc |-> "enter",
     nodes |-> <<>>, edges |-> <<>>, nested_subgraphs |-> EmptyMap,
     last_node_id |-> "",
     function_call_children |-> <<>>, regular_children |-> <<>>,
     i |-> 1, j |-> 1, subgraph_data |-> EmptyDoc]

CallRecord(fn, node, parent, by) ==
    [fn |-> fn, node |-> node, parent |-> parent, by |-> by]

Top == stack[Len(stack)]

Running(fn, pc) ==
    /\ phase = "running"
    /\ stack # <<>>
    /\ Top.fn = fn
    /\ Top.pc = pc

SetTop(frame) == [stack EXCEPT ![Len(stack)] = frame]

Pop == SubSeq(stack, 1, Len(stack) - 1)

---------------------------------------------------------------------------
(* The page's script: the modal stack (lines 858-959) and the handlers of  *)
(* the choice modal (lines 1298-1332).  A stack entry is the modalInfo of  *)
(* a pushModal call site (lines 977-1001, 1078-1086): its type and the id  *)
(* of the node it was opened for.                                          *)

ModalTypes == {"toolTable", "subgraph", "fullContent", "choice"}

\* the node ids a modal is opened for: an empty (falsy) and a non-empty one
ModalNodeIds == {"", "n"}

ModalInfos == [type : ModalTypes, nodeId : ModalNodeIds]

\* lines 937-942
hideAllModals(shown) == [t \in ModalTypes |-> FALSE]

\* faulty variant of hideModal: the element stays as it is
hideModalNothing(shown, modalType) == shown

\* lines 944-959
hideModal(shown, modalType) == [shown EXCEPT ![modalType] = FALSE]

\* lines 911-935: what is shown once showCurrentModal has run on stack `ms`;
\* the show function of every type sets its element's display to "block"
\* (lines 1115, 1232, 1242, 1250)
showCurrentModal(ms, shown) ==
    IF Len(ms) = 0 THEN shown
    ELSE LET currentModal == ms[Len(ms)]
             cleared == IF currentModal.type # "choice" /\ currentModal.type # "fullContent"
                        THEN hideAllModals(shown) ELSE shown
         IN  [cleared EXCEPT ![currentModal.type] = TRUE]

\* lines 1246-1251: showChoiceModal stores the node of the choice entry
\* (choiceNodeData and choiceAvailableSubgraphs are stored along with it)
ChoiceAfterShow(ms, choice) ==
    IF Len(ms) > 0 /\ ms[Len(ms)].type = "choice"
    THEN Some(ms[Len(ms)].nodeId) ELSE choice

\* the page as loaded: no modal open (line 858, display: none at lines
\* 556-683) and no choice context (lines 878-880)
PageLoaded ==
    /\ modalStack = <<>>
    /\ display = [t \in ModalTypes |-> FALSE]
    /\ choiceNodeId = None
    /\ stray = FALSE

Init ==
    /\ IsInputTree(tree)
    /\ G = [nodes |-> <<>>, edges |-> <<>>]
    /\ function_call_subgraphs = EmptyMap
    /\ stack = <<>>
    /\ ret = None
    /\ calls = <<>>
    /\ nodes_data = <<>>
    /\ edges_data = <<>>
    /\ phase = "init"
    /\ PageLoaded

\* build_networkx, lines 92-105 and 421: the start node, then walk(root, start)
BuildNetworkx ==
    /\ phase = "init"
    /\ G' = [nodes |-> <<MainStartNode>>, edges |-> <<>>]
    /\ function_call_subgraphs' = EmptyMap
    /\ stack' = <<WalkFrame(1, Some(MAIN_START))>>
    /\ calls' = <<CallRecord("walk", 1, Some(MAIN_START), 0)>>
    /\ phase' = "running"
    /\ UNCHANGED <<nodes_data, edges_data, tree, ret, page>>

\* walk, lines 304-361: the node, the edge from the parent, the two child lists
WalkEnter ==
    /\ Running("walk", "enter")
    /\ G' = WalkAdd(G, tree[Top.node], Top.node, Top.parent)
    /\ stack' = SetTop([Top EXCEPT
            !.pc = "loop",
            !.function_call_children = FunctionCallChildren(tree[Top.node]),
            !.regular_children = RegularChildren(tree[Top.node])])
    /\ UNCHANGED <<nodes_data, edges_data, tree, function_call_subgraphs, ret, calls, phase, page>>

\* walk, lines 364-365: walk(child, nid) for the next regular child
WalkCallRegular ==
    /\ Running("walk", "loop")
    /\ Top.i <= Len(Top.regular_children)
    /\ Len(stack) < RecursionLimit
    /\ LET child == Top.regular_children[Top.i]
           nid   == tree[Top.node].nodeId
       IN  /\ stack' = Append(SetTop([Top EXCEPT !.i = @ + 1]),
                              WalkFrame(child, Some(nid)))
           /\ calls' = Append(calls, CallRecord("walk", child, Some(nid), Top.node))
    /\ UNCHANGED <<nodes_data, edges_data, tree, G, function_call_subgraphs, ret, phase, page>>

\* walk, lines 368-403 and 416-418: has_subgraph and the label; without
\* function-call children walk returns here
WalkMark ==
    /\ Running("walk", "loop")
    /\ Top.i > Len(Top.regular_children)
    /\ G' = WalkMarked(G, tree[Top.node], Top.function_call_children # <<>>)
    /\ stack' = IF Top.function_call_children # <<>>
                THEN SetTop([Top EXCEPT !.pc = "fc", !.subgraph_data = EmptyDoc])
                ELSE Pop
    /\ UNCHANGED <<nodes_data, edges_data, tree, function_call_subgraphs, ret, calls, phase, page>>

\* walk, lines 405-409: build_subgraph(fc_child, None, name)
WalkCallFc ==
    /\ Running("walk", "fc")
    /\ Top.j <= Len(Top.function_call_children)
    /\ Len(stack) < RecursionLimit
    /\ LET child == Top.function_call_children[Top.j]
       IN  /\ stack' = Append(SetTop([Top EXCEPT !.pc = "await"]),
                              BuildFrame(child, None, NameOf(tree[Top.node])))
           /\ calls' = Append(calls, CallRecord("build_subgraph", child, None, Top.node))
    /\ UNCHANGED <<nodes_data, edges_data, tree, G, function_call_subgraphs, ret, phase, page>>

\* walk, lines 410-413: the returned nodes, edges and nested sub-graphs merged
WalkMergeFc ==
    /\ Running("walk", "await")
    /\ ret # None
    /\ stack' = SetTop([Top EXCEPT
            !.pc = "fc",
            !.j = @ + 1,
            !.subgraph_data = ExtendDoc(@, ret[1])])
    /\ ret' = None
    /\ UNCHANGED <<nodes_data, edges_data, tree, G, function_call_subgraphs, calls, phase, page>>

\* walk, line 415: the document stored under this node's id; walk returns
WalkStore ==
    /\ Running("walk", "fc")
    /\ Top.j > Len(Top.function_call_children)
    /\ function_call_subgraphs' =
            Update(function_call_subgraphs, tree[Top.node].nodeId :> Top.subgraph_data)
    /\ stack' = Pop
    /\ UNCHANGED <<nodes_data, edges_data, tree, G, ret, calls, phase, page>>

\* build_subgraph, lines 111-236: the entry node, the node itself, the edges
\* from the entry node and from the parent, the two child lists
BuildEnter ==
    /\ Running("build_subgraph", "enter")
    /\ LET node == tree[Top.node]
       IN  stack' = SetTop([Top EXCEPT
                !.pc = "loop",
                !.nodes = EntryNodes(node, Top.parent, Top.node)
                            \o <<NodeConfig(node, Top.node)>>,
                !.edges = EntryEdges(node, Top.parent)
                            \o ParentEdges(node, Top.parent, Top.parent_name),
                !.last_node_id = node.nodeId,
                !.function_call_children = FunctionCallChildren(node),
                !.regular_children = RegularChildren(node)])
    /\ UNCHANGED <<nodes_data, edges_data, tree, G, function_call_subgraphs, ret, calls, phase, page>>

\* build_subgraph, lines 239-242: build_subgraph(child, nid, name)
BuildCallRegular ==
    /\ Running("build_subgraph", "loop")
    /\ Top.i <= Len(Top.regular_children)
    /\ Len(stack) < RecursionLimit
    /\ LET child == Top.regular_children[Top.i]
           nid   == tree[Top.node].nodeId
       IN  /\ stack' = Append(SetTop([Top EXCEPT !.pc = "await_regular"]),
                              BuildFrame(child, Some(nid), NameOf(tree[Top.node])))
           /\ calls' = Append(calls,
                              CallRecord("build_subgraph", child, Some(nid), Top.node))
    /\ UNCHANGED <<nodes_data, edges_data, tree, G, function_call_subgraphs, ret, phase, page>>

\* build_subgraph, lines 243-249: the regular child's return value merged
BuildMergeRegular ==
    /\ Running("build_subgraph", "await_regular")
    /\ ret # None
    /\ stack' = SetTop([Top EXCEPT
            !.pc = "loop",
            !.i = @ + 1,
            !.nodes = @ \o ret[1].nodes,
            !.edges = @ \o ret[1].edges,
            !.nested_subgraphs = Update(@, ret[1].nested_subgraphs),
            !.last_node_id = LastNodeId(@, ret[1].nodes)])
    /\ ret' = None
    /\ UNCHANGED <<nodes_data, edges_data, tree, G, function_call_subgraphs, calls, phase, page>>

\* build_subgraph, lines 252-258: build_subgraph(fc_child, None, name)
BuildCallFc ==
    /\ Running("build_subgraph", "loop")
    /\ Top.i > Len(Top.regular_children)
    /\ Top.j <= Len(Top.function_call_children)
    /\ Len(stack) < RecursionLimit
    /\ LET child == Top.function_call_children[Top.j]
       IN  /\ stack' = Append(SetTop([Top EXCEPT !.pc = "await_fc"]),
                              BuildFrame(child, None, NameOf(tree[Top.node])))
           /\ calls' = Append(calls, CallRecord("build_subgraph", child, None, Top.node))
    /\ UNCHANGED <<nodes_data, edges_data, tree, G, function_call_subgraphs, ret, phase, page>>

\* build_subgraph, lines 259-261: the function-call child's return value merged
BuildMergeFc ==
    /\ Running("build_subgraph", "await_fc")
    /\ ret # None
    /\ stack' = SetTop([Top EXCEPT
            !.pc = "loop",
            !.j = @ + 1,
            !.subgraph_data = ExtendDoc(@, ret[1])])
    /\ ret' = None
    /\ UNCHANGED <<nodes_data, edges_data, tree, G, function_call_subgraphs, calls, phase, page>>

\* what build_subgraph returns (lines 263-301) from the frame that ran it
ReturnValue(frame) ==
    LET node == tree[frame.node]
    IN  [node |-> frame.node,
         parent |-> frame.parent,
         nodes |-> frame.nodes \o ResultNodes(node, frame.node),
         edges |-> frame.edges \o ResultEdges(node, frame.last_node_id),
         nested_subgraphs |->
            NestedWithOwn(frame.nested_subgraphs, node, frame.subgraph_data)]

\* build_subgraph, lines 263-301: the nested entry, the result node, return
BuildReturn ==
    /\ Running("build_subgraph", "loop")
    /\ Top.i > Len(Top.regular_children)
    /\ Top.j > Len(Top.function_call_children)
    /\ ret' = Some(ReturnValue(Top))
    /\ stack' = Pop
    /\ UNCHANGED <<nodes_data, edges_data, tree, G, function_call_subgraphs, calls, phase, page>>

\* the running activation is about to call walk or build_subgraph on a child
\* (lines 239, 253, 365, 405)
AtRecursiveCall ==
    IF Top.pc = "loop"
    THEN \/ Top.i <= Len(Top.regular_children)
         \/ Top.fn = "build_subgraph" /\ Top.j <= Len(Top.function_call_children)
    ELSE Top.pc = "fc" /\ Top.j <= Len(Top.function_call_children)

\* a recursive call beyond the interpreter's limit raises RecursionError,
\* which nothing catches: build_networkx ends without a return value
RecursionError ==
    /\ phase = "running"
    /\ stack # <<>>
    /\ AtRecursiveCall
    /\ Len(stack) >= RecursionLimit
    /\ phase' = "error"
    /\ stack' = <<>>
    /\ UNCHANGED <<nodes_data, edges_data, tree, G, function_call_subgraphs, ret, calls, page>>

\* build_networkx, line 423: return G, function_call_subgraphs
Finish ==
    /\ phase = "running"
    /\ stack = <<>>
    /\ phase' = "done"
    /\ UNCHANGED <<nodes_data, edges_data, tree, G, function_call_subgraphs, stack, ret, calls, page>>

Range(seq) == {seq[k] : k \in 1..Len(seq)}

\* `sub in s` on strings
InStr(sub, s) ==
    \E k \in 0..(Len(s) - Len(sub)) : SubSeq(s, k + 1, k + Len(sub)) = sub

\* lines 492-501: the marker line put after the first line of a label that
\* lacks it, for a node with a sub-graph
EnhancedLabel(original_label, has_subgraph) ==
    IF has_subgraph /\ ~InStr("toolUse: yes", original_label)
    THEN IF InStr("\n", original_label)
         THEN LET k == CHOOSE j \in 1..Len(original_label) :
                          /\ SubSeq(original_label, j, j) = "\n"
                          /\ ~InStr("\n", SubSeq(original_label, 1, j - 1))
              IN  SubSeq(original_label, 1, k - 1) \o "\n" \o ToolUseMarker
                    \o SubSeq(original_label, k, Len(original_label))
         ELSE original_label \o "\n" \o ToolUseMarker
    ELSE original_label

\* create_simple_html_graph, lines 472-525: the renderer's node for one node
\* of the main graph
HtmlNodeConfig(data) ==
    LET role         == Get(data, "role", "unknown")
        name         == Get(data, "name", "")
        is_truncated == Get(data, "is_truncated", FALSE)
        has_subgraph == Get(data, "has_subgraph", FALSE)
        color == IF role = "function_call" THEN "#E67E22"
                 ELSE IF role = "start" THEN "#FF1493"
                 ELSE get_color_for_name(name)
        shape == IF role = "function_call" THEN "box"
                 ELSE IF role = "start" THEN "star"
                 ELSE Get(ROLE_SHAPES, role, "ellipse")
        node_config ==
            [id |-> data.id,
             label |-> EnhancedLabel(data.label, has_subgraph),
             color |-> color, shape |-> shape,
             font |-> [size |-> 14, align |-> "center",
                       color |-> get_text_color_for_background(color)],
             has_subgraph |-> has_subgraph, name |-> name,
             full_value |-> Get(data, "full_value", ""),
             is_truncated |-> is_truncated,
             kind |-> data.kind, src |-> data.src]
    IN  IF has_subgraph
        THEN node_config @@ [borderWidth |-> 5, borderColor |-> "#FF0000", size |-> 30]
        ELSE IF is_truncated
             THEN node_config @@ [borderWidth |-> 2, borderColor |-> "#FFA500"]
             ELSE node_config

\* G.nodes[id].get("name", "")
NodeName(g, id) ==
    LET data == CHOOSE n \in Range(g.nodes) : n.id = id
    IN  Get(data, "name", "")

\* faulty variant of HtmlEdgeConfig: no edge is ever dashed
HtmlEdgeConfigSolid(g, e) == [from |-> e.from, to |-> e.to, arrows |-> "to"]

\* create_simple_html_graph, lines 529-539: the renderer's edge for one edge
\* of the main graph, dashed between nodes of different names
HtmlEdgeConfig(g, e) ==
    LET edge_config == [from |-> e.from, to |-> e.to, arrows |-> "to"]
    IN  IF NodeName(g, e.from) # NodeName(g, e.to)
        THEN edge_config @@ [dashes |-> TRUE]
        ELSE edge_config

\* main, lines 1378-1381: what build_networkx returned goes to
\* create_simple_html_graph (lines 459-539), which prepares the renderer's
\* nodes and edges; the sub-graph documents are embedded as they are
CreateSimpleHtmlGraph ==
    /\ phase = "done"
    /\ nodes_data' = [k \in 1..Len(G.nodes) |-> HtmlNodeConfig(G.nodes[k])]
    /\ edges_data' = [k \in 1..Len(G.edges) |-> HtmlEdgeConfig(G, G.edges[k])]
    /\ phase' = "rendered"
    /\ UNCHANGED <<tree, G, function_call_subgraphs, stack, ret, calls, page>>

Next ==
    \/ BuildNetworkx
    \/ WalkEnter
    \/ WalkCallRegular
    \/ WalkMark
    \/ WalkCallFc
    \/ WalkMergeFc
    \/ WalkStore
    \/ BuildEnter
    \/ BuildCallRegular
    \/ BuildMergeRegular
    \/ BuildCallFc
    \/ BuildMergeFc
    \/ BuildReturn
    \/ RecursionError
    \/ Finish
    \/ CreateSimpleHtmlGraph

Spec == Init /\ [][Next]_vars

---------------------------------------------------------------------------
(* The page's script as a state machine of its own: the graph data is at   *)
(* rest, and the handlers run in any order.                                *)

\* pushModal, lines 883-887, called from handleNodeClick (lines 977-1001)
\* and from a row of the tool table (lines 1078-1086)
PushModal ==
    \E modalInfo \in ModalInfos :
        /\ Len(modalStack) < MaxModalDepth
        /\ modalStack' = Append(modalStack, modalInfo)
        /\ display' = showCurrentModal(modalStack', display)
        /\ choiceNodeId' = ChoiceAfterShow(modalStack', choiceNodeId)
        /\ UNCHANGED <<stray, build>>

\* popModal, lines 889-900: Back, a close button, a click outside a modal
PopModal ==
    LET popped == IF Len(modalStack) > 0
                  THEN SubSeq(modalStack, 1, Len(modalStack) - 1) ELSE modalStack
        hidden == IF Len(modalStack) > 0
                  THEN hideModal(display, modalStack[Len(modalStack)].type) ELSE display
    IN  /\ modalStack' = popped
        /\ display' = showCurrentModal(popped, hidden)
        /\ choiceNodeId' = ChoiceAfterShow(popped, choiceNodeId)
        /\ UNCHANGED <<stray, build>>

\* the elements left shown after hideModal has run for the entries ms[k..]
RECURSIVE HideEach(_, _, _)
HideEach(shown, ms, k) ==
    IF k > Len(ms) THEN shown ELSE HideEach(hideModal(shown, ms[k].type), ms, k + 1)

\* clearModalStack, lines 902-909: Close All
ClearModalStack ==
    /\ modalStack' = <<>>
    /\ display' = HideEach(display, modalStack, 1)
    /\ UNCHANGED <<choiceNodeId, stray, build>>

\* the top entry replaced (lines 1305, 1323); on an empty stack the
\* assignment to index -1 leaves the length, and so the stack, as it is
ReplaceTop(ms, modalInfo) ==
    IF Len(ms) = 0 THEN ms ELSE [ms EXCEPT ![Len(ms)] = modalInfo]

\* choiceSubgraph, lines 1299-1315; the sub-graph of the stored node exists,
\* as handleNodeClick opens the choice modal only for such a node (line 972)
ChoiceSubgraph ==
    /\ choiceNodeId # None /\ choiceNodeId[1] # ""
    /\ modalStack' = ReplaceTop(modalStack, [type |-> "toolTable", nodeId |-> choiceNodeId[1]])
    /\ display' = showCurrentModal(modalStack', hideModal(display, "choice"))
    /\ choiceNodeId' = ChoiceAfterShow(modalStack', choiceNodeId)
    /\ UNCHANGED <<stray, build>>

\* choiceFullContent, lines 1317-1332
ChoiceFullContent ==
    /\ choiceNodeId # None /\ choiceNodeId[1] # ""
    /\ modalStack' = ReplaceTop(modalStack, [type |-> "fullContent", nodeId |-> choiceNodeId[1]])
    /\ display' = showCurrentModal(modalStack', hideModal(display, "choice"))
    /\ choiceNodeId' = ChoiceAfterShow(modalStack', choiceNodeId)
    /\ stray' = (stray \/ (Len(modalStack) > 0 /\ modalStack[Len(modalStack)].type # "choice"))
    /\ UNCHANGED build

\* the page, loaded: the graph data plays no part in the navigation
ModalInit ==
    /\ tree = <<>>
    /\ G = [nodes |-> <<>>, edges |-> <<>>]
    /\ function_call_subgraphs = EmptyMap
    /\ stack = <<>>
    /\ ret = None
    /\ calls = <<>>
    /\ nodes_data = <<>>
    /\ edges_data = <<>>
    /\ phase = "rendered"
    /\ PageLoaded

ModalNext ==
    \/ PushModal
    \/ PopModal
    \/ ClearModalStack
    \/ ChoiceSubgraph
    \/ ChoiceFullContent

ModalSpec == ModalInit /\ [][ModalNext]_vars

---------------------------------------------------------------------------
(* Vocabulary of the properties.                                           *)

Done == phase = "done"

\* the input of the example of the specification: root r (user, "hello")
\* whose only child is the function call a with toolResult "42"
ExampleTree == MkTree(2, (2 :> 1), <<KindUser, KindCall>>, <<"r", "a">>)

\* the nodeIds of the input tree are pairwise distinct
DistinctIds == \A i, j \in 1..N : i # j => tree[i].nodeId # tree[j].nodeId

\* input node i has a child whose role is function_call
HasFunctionCallChild(i) ==
    \E k \in 1..Len(tree[i].pointingToNode) :
        LET c == tree[tree[i].pointingToNode[k]]
        IN  "role" \in DOMAIN c /\ c.role = "function_call"

\* every sub-graph document of a SubgraphMap, the nested ones included
RECURSIVE DocsIn(_)
DocsIn(map) == UNION {{map[k]} \cup DocsIn(map[k].subgraphs) : k \in DOMAIN map}

AllDocs == DocsIn(function_call_subgraphs)

---------------------------------------------------------------------------
(* C1.  Original statement: for the example input the main graph contains  *)
(* the two content nodes r and a plus exactly one synthesized main entry   *)
(* node.                                                                   *)
C1_Original ==
    (Done /\ tree = ExampleTree) =>
        /\ {g.id : g \in {h \in Range(G.nodes) : h.kind = "content"}} = {"r", "a"}
        /\ Cardinality({k \in 1..Len(G.nodes) : G.nodes[k].kind = "entry"}) = 1

(* C1, amended.  For the example input the main graph contains exactly one *)
(* content node, r, plus exactly one synthesized main entry node           *)
(* (MAIN_START) with the single edge MAIN_START -> r; the function call a  *)
(* is no node of the main graph and no main-graph edge ends at it.         *)
C1_MainGraphOfExample ==
    (Done /\ tree = ExampleTree) =>
        /\ Len(G.nodes) = 2
        /\ G.nodes[1].id = MAIN_START /\ G.nodes[1].kind = "entry"
        /\ G.nodes[2].id = "r" /\ G.nodes[2].kind = "content"
        /\ \A k \in 1..Len(G.nodes) : G.nodes[k].id # "a"
        /\ G.edges = <<[from |-> MAIN_START, to |-> "r"]>>

C1_Witness == Done /\ tree = ExampleTree /\ Len(G.nodes) = 2

---------------------------------------------------------------------------
(* C2.  Original statement: for the example input the top-level            *)
(* SubgraphMap has an entry under key "a" with exactly 3 nodes (entry, a,  *)
(* result) and exactly 2 edges (entry -> a, a -> result).                  *)
C2_Original ==
    (Done /\ tree = ExampleTree) =>
        /\ "a" \in DOMAIN function_call_subgraphs
        /\ Len(function_call_subgraphs["a"].nodes) = 3
        /\ Len(function_call_subgraphs["a"].edges) = 2

(* C2, amended.  For the example input the top-level SubgraphMap has       *)
(* exactly one entry, under key "r" (the id of a's parent, the node that   *)
(* has the function-call child), and that entry contains exactly 3 nodes   *)
(* (the entry node START_a, the node a, the result node a_result) and      *)
(* exactly 2 edges (START_a -> a and a -> a_result).                       *)
C2_SubgraphOfExample ==
    (Done /\ tree = ExampleTree) =>
        /\ DOMAIN function_call_subgraphs = {"r"}
        /\ LET doc == function_call_subgraphs["r"]
           IN  /\ [k \in 1..Len(doc.nodes) |-> doc.nodes[k].id]
                    = <<"START_a", "a", "a_result">>
               /\ [k \in 1..Len(doc.nodes) |-> doc.nodes[k].kind]
                    = <<"entry", "content", "result">>
               /\ [k \in 1..Len(doc.edges) |-> <<doc.edges[k].from, doc.edges[k].to>>]
                    = << <<"START_a", "a">>, <<"a", "a_result">> >>
               /\ doc.subgraphs = EmptyMap

C2_Witness ==
    Done /\ tree = ExampleTree /\ "r" \in DOMAIN function_call_subgraphs

---------------------------------------------------------------------------
(* C3.  Subgraph correspondence: for an input tree with pairwise-distinct  *)
(* nodeIds, every node with has_subgraph = true in the main graph has an   *)
(* entry under its own id in the top-level SubgraphMap, every such node of *)
(* a sub-graph document (at any nesting depth) has an entry under its own  *)
(* id in that document's `subgraphs`, and the entry has at least one node. *)
HasEntry(map, id) == id \in DOMAIN map /\ Len(map[id].nodes) >= 1

C3_SubgraphCorrespondence ==
    (Done /\ DistinctIds) =>
        /\ \A g \in Range(G.nodes) :
                g.has_subgraph => HasEntry(function_call_subgraphs, g.id)
        /\ \A doc \in AllDocs : \A g \in Range(doc.nodes) :
                g.has_subgraph => HasEntry(doc.subgraphs, g.id)

\* a finished run in which a main-graph node and a node of a sub-graph
\* document both have sub-graphs
C3_Witness ==
    /\ Done /\ DistinctIds
    /\ \E g \in Range(G.nodes) : g.has_subgraph
    /\ \E doc \in AllDocs : \E g \in Range(doc.nodes) :
            g.has_subgraph /\ g.kind = "content" /\ tree[g.src].role # "function_call"

---------------------------------------------------------------------------
(* C4.  Original statement: in the final output every graph node built     *)
(* from an input node, in the main graph and in every sub-graph document,  *)
(* has has_subgraph = true iff that input node has a function_call child;  *)
(* every synthesized node has has_subgraph = false.                        *)
FlagMatchesInput(g) ==
    IF g.kind = "content"
    THEN g.has_subgraph = HasFunctionCallChild(g.src)
    ELSE g.has_subgraph = FALSE

\* the main-graph node an input node was walked into carries the flag of
\* that input node
MainFlagMatchesInput(call) ==
    call.fn = "walk" =>
        \A g \in Range(G.nodes) :
            g.id = tree[call.node].nodeId =>
                g.has_subgraph = HasFunctionCallChild(call.node)

C4_Original ==
    Done =>
        /\ \A g \in Range(G.nodes) : FlagMatchesInput(g)
        /\ \A call \in Range(calls) : MainFlagMatchesInput(call)
        /\ \A doc \in AllDocs : \A g \in Range(doc.nodes) : FlagMatchesInput(g)

(* C4, amended.  For an input tree whose nodeIds are pairwise distinct and *)
(* none of which is "MAIN_START": in the final output every graph node     *)
(* built from an input node has has_subgraph = true iff that input node    *)
(* has a function_call child, and every synthesized node (main entry,      *)
(* sub-graph entry, tool result) has has_subgraph = false.                 *)
NoMainStartId == \A i \in 1..N : tree[i].nodeId # MAIN_START

C4_HasSubgraphIffFunctionCallChild ==
    (Done /\ DistinctIds /\ NoMainStartId) =>
        /\ \A g \in Range(G.nodes) : FlagMatchesInput(g)
        /\ \A call \in Range(calls) : MainFlagMatchesInput(call)
        /\ \A g \in Range(G.nodes) : g.id = MAIN_START => ~g.has_subgraph
        /\ \A doc \in AllDocs : \A g \in Range(doc.nodes) : FlagMatchesInput(g)

\* a finished run with flagged and unflagged content nodes in the main graph
\* and in a sub-graph document
C4_Witness ==
    /\ Done /\ DistinctIds /\ NoMainStartId
    /\ \E g, h \in Range(G.nodes) :
            g.kind = "content" /\ g.has_subgraph /\ h.kind = "content" /\ ~h.has_subgraph
    /\ \E doc \in AllDocs : \E g, h \in Range(doc.nodes) :
            g.kind = "content" /\ g.has_subgraph /\ h.kind = "content" /\ ~h.has_subgraph

---------------------------------------------------------------------------
(* C5.  Completeness of partition: in every activation of walk or          *)
(* build_subgraph that has split its children, each child of the node is   *)
(* in exactly one of function_call_children and regular_children, the two  *)
(* lengths sum to the length of pointingToNode, and a child is in          *)
(* function_call_children exactly when its role is function_call (a child  *)
(* without a role is regular).                                             *)
RoleIsFunctionCall(i) == "role" \in DOMAIN tree[i] /\ tree[i].role = "function_call"

PartitionComplete(f) ==
    LET kids == tree[f.node].pointingToNode
        fc   == f.function_call_children
        reg  == f.regular_children
    IN  /\ Len(fc) + Len(reg) = Len(kids)
        /\ \A c \in Range(kids) :
              /\ (c \in Range(fc)) # (c \in Range(reg))
              /\ (c \in Range(fc)) = RoleIsFunctionCall(c)

C5_PartitionComplete ==
    \A k \in 1..Len(stack) : stack[k].pc # "enter" => PartitionComplete(stack[k])

\* walk has split the children of a node with a function-call child, and
\* build_subgraph those of a node that has a child without a role
C5_Witness ==
    \E k, m \in 1..Len(stack) :
        /\ stack[k].fn = "walk" /\ stack[k].function_call_children # <<>>
        /\ stack[m].fn = "build_subgraph" /\ stack[m].pc # "enter"
        /\ \E c \in Range(stack[m].regular_children) : "role" \notin DOMAIN tree[c]

---------------------------------------------------------------------------
(* C6.  Original statement: the node list a build_subgraph call with       *)
(* parent None returns contains exactly one entry node, with id            *)
(* START_<nodeId>; it is the first node of the list and has exactly one    *)
(* outgoing edge, whose target is the node's own id.  The node list a call *)
(* with a parent returns contains no entry node.                           *)
EntryPositions(r) == {k \in 1..Len(r.nodes) : r.nodes[k].kind = "entry"}

C6_Original ==
    ret # None =>
        LET r   == ret[1]
            nid == tree[r.node].nodeId
            out == {k \in 1..Len(r.edges) : r.edges[k].from = "START_" \o nid}
        IN  IF r.parent = None
            THEN /\ EntryPositions(r) = {1}
                 /\ r.nodes[1].id = "START_" \o nid
                 /\ Cardinality(out) = 1
                 /\ \A k \in out : r.edges[k].to = nid
            ELSE EntryPositions(r) = {}

---------------------------------------------------------------------------
(* C7.  Result-node attachment: a build_subgraph call on a function_call   *)
(* node with a non-empty toolResult returns exactly one more node (the     *)
(* last one, with id <nodeId>_result) and exactly one more edge (the last  *)
(* one, whose target is that node) than the call returns without a         *)
(* toolResult; with an empty or absent toolResult, or on a node whose role *)
(* is not function_call, no result node and no result edge are added.      *)
HasToolResult(i) ==
    /\ RoleIsFunctionCall(i)
    /\ "toolResult" \in DOMAIN tree[i] /\ tree[i].toolResult # ""

\* the input nodes one build_subgraph call on node i turns into content
\* nodes of its own node list: i and what regular children lead to
RECURSIVE RegularClosure(_)
RegularClosure(i) ==
    {i} \cup UNION {RegularClosure(c) :
                      c \in {d \in Range(tree[i].pointingToNode) : ~RoleIsFunctionCall(d)}}

ParentOf(c) == CHOOSE p \in 1..N : c \in Range(tree[p].pointingToNode)

\* what the call returns apart from the result node and edge of its own node
NodesWithoutResult(r) ==
    LET below == RegularClosure(r.node) \ {r.node}
    IN  (IF r.parent = None THEN 1 ELSE 0) + 1 + Cardinality(below)
          + Cardinality({c \in below : HasToolResult(c)})

EdgesWithoutResult(r) ==
    LET below == RegularClosure(r.node) \ {r.node}
    IN  (IF r.parent = None THEN 1 ELSE 0)
          + (IF r.parent # None /\ r.parent[1] # "" THEN 1 ELSE 0)
          + Cardinality({c \in below : tree[ParentOf(c)].nodeId # ""})
          + Cardinality({c \in below : HasToolResult(c)})

OwnResultNodes(r) ==
    {k \in 1..Len(r.nodes) : r.nodes[k].kind = "result" /\ r.nodes[k].src = r.node}

C7_ResultNodeAttachment ==
    ret # None =>
        LET r   == ret[1]
            rid == tree[r.node].nodeId \o "_result"
        IN  IF HasToolResult(r.node)
            THEN /\ Len(r.nodes) = NodesWithoutResult(r) + 1
                 /\ Len(r.edges) = EdgesWithoutResult(r) + 1
                 /\ OwnResultNodes(r) = {Len(r.nodes)}
                 /\ r.nodes[Len(r.nodes)].id = rid
                 /\ r.edges[Len(r.edges)].to = rid
            ELSE /\ Len(r.nodes) = NodesWithoutResult(r)
                 /\ Len(r.edges) = EdgesWithoutResult(r)
                 /\ OwnResultNodes(r) = {}

\* a call returns for a function call with a toolResult and regular
\* children one of which is no function call but carries a toolResult
C7_Witness ==
    /\ ret # None
    /\ HasToolResult(ret[1].node)
    /\ \E c \in RegularClosure(ret[1].node) \ {ret[1].node} :
          "toolResult" \in DOMAIN tree[c] /\ tree[c].toolResult # ""

---------------------------------------------------------------------------
(* C8.  Original statement: for every input node, the root included, whose *)
(* role is function_call and whose toolResult is non-empty, the complete   *)
(* output (main graph and all sub-graph documents) contains exactly one    *)
(* result node for it, in the same document as the node itself, with       *)
(* exactly one incoming edge.                                              *)
Documents ==
    {[nodes |-> G.nodes, edges |-> G.edges]}
        \cup {[nodes |-> d.nodes, edges |-> d.edges] : d \in AllDocs}

ResultNodesFor(i) ==
    {dk \in UNION {{<<d, k>> : k \in 1..Len(d.nodes)} : d \in Documents} :
        dk[1].nodes[dk[2]].kind = "result" /\ dk[1].nodes[dk[2]].src = i}

C8_Original ==
    Done =>
        \A i \in 1..N : HasToolResult(i) =>
            /\ Cardinality(ResultNodesFor(i)) = 1
            /\ \A dk \in ResultNodesFor(i) :
                  LET d == dk[1]
                      res == d.nodes[dk[2]]
                  IN  /\ \E g \in Range(d.nodes) : g.kind = "content" /\ g.src = i
                      /\ Cardinality({e \in 1..Len(d.edges) : d.edges[e].to = res.id}) = 1

---------------------------------------------------------------------------
(* C9.  Original statement: for an input tree whose nodeIds are pairwise   *)
(* distinct, no two nodes of the main graph share an id and no two nodes   *)
(* of the node list of one sub-graph document share an id, the synthesized *)
(* MAIN_START, START_<id> and <id>_result nodes counted with the rest.     *)
UniqueIds(nodes) ==
    \A k, m \in 1..Len(nodes) : k # m => nodes[k].id # nodes[m].id

C9_Original ==
    (Done /\ DistinctIds) => \A d \in Documents : UniqueIds(d.nodes)

---------------------------------------------------------------------------
(* C10.  Original statement: for every graph node built from an input      *)
(* node, in the main graph and in every sub-graph document and for every   *)
(* role, function_call included, is_truncated is true exactly when the     *)
(* value field of that input node is longer than 40 characters.            *)
ValueField(i) == IF "value" \in DOMAIN tree[i] THEN tree[i].value ELSE ""

ToolArgsField(i) == IF "toolArgs" \in DOMAIN tree[i] THEN tree[i].toolArgs ELSE ""

---------------------------------------------------------------------------
(* C11.  Original statement: the output buffers are append-only: once a    *)
(* node is in the main graph or in a sub-graph node list no later step of  *)
(* walk or build_subgraph changes any of its attributes, and no node or    *)
(* edge that was appended is removed or replaced.                          *)
IsPrefix(s, t) == Len(s) <= Len(t) /\ SubSeq(t, 1, Len(s)) = s

IsSuffix(s, t) == Len(s) <= Len(t) /\ SubSeq(t, Len(t) - Len(s) + 1, Len(t)) = s

MapKept(old, new) == \A key \in DOMAIN old : key \in DOMAIN new /\ new[key] = old[key]

\* the lists of one activation across a step
FrameKept(f, g) ==
    /\ f.fn = "build_subgraph" =>
          /\ IsPrefix(f.nodes, g.nodes)
          /\ IsPrefix(f.edges, g.edges)
          /\ MapKept(f.nested_subgraphs, g.nested_subgraphs)
    /\ IsPrefix(f.subgraph_data.nodes, g.subgraph_data.nodes)
    /\ IsPrefix(f.subgraph_data.edges, g.subgraph_data.edges)
    /\ MapKept(f.subgraph_data.subgraphs, g.subgraph_data.subgraphs)

\* a returning activation hands all it collected to its return value, and
\* a return value consumed is found whole in the caller's lists
HandedOver ==
    /\ (ret = None /\ ret' # None) =>
          /\ IsPrefix(Top.nodes, ret'[1].nodes)
          /\ IsPrefix(Top.edges, ret'[1].edges)
          /\ MapKept(Top.nested_subgraphs, ret'[1].nested_subgraphs)
          /\ Top.function_call_children # <<>> =>
                MapKept(tree[Top.node].nodeId :> Top.subgraph_data,
                        ret'[1].nested_subgraphs)
    /\ (ret # None /\ ret' = None) =>
          LET f == stack'[Len(stack')]
          IN  /\ \/ f.fn = "build_subgraph" /\ IsSuffix(ret[1].nodes, f.nodes)
                                            /\ IsSuffix(ret[1].edges, f.edges)
                                            /\ MapKept(ret[1].nested_subgraphs,
                                                       f.nested_subgraphs)
                 \/ /\ IsSuffix(ret[1].nodes, f.subgraph_data.nodes)
                    /\ IsSuffix(ret[1].edges, f.subgraph_data.edges)
                    /\ MapKept(ret[1].nested_subgraphs, f.subgraph_data.subgraphs)
    /\ (Len(stack') < Len(stack) /\ phase' = "running" /\ Top.fn = "walk"
            /\ Top.function_call_children # <<>>) =>
          MapKept(tree[Top.node].nodeId :> Top.subgraph_data, function_call_subgraphs')

SubgraphListsKept ==
    /\ \A k \in 1..Len(stack) : k <= Len(stack') => FrameKept(stack[k], stack'[k])
    /\ HandedOver
    /\ MapKept(function_call_subgraphs, function_call_subgraphs')

C11_Original ==
    [][/\ IsPrefix(G.nodes, G'.nodes)
       /\ IsPrefix(G.edges, G'.edges)
       /\ SubgraphListsKept]_vars

(* C11.  Amended statement: for an input tree whose nodeIds are pairwise   *)
(* distinct and different from MAIN_START, no node or edge that was        *)
(* appended to the main graph or to a sub-graph list is removed, replaced  *)
(* or moved; a node of a sub-graph list is never changed once appended; a  *)
(* node of the main graph is changed once appended only by the walk call   *)
(* on its own input node, after the regular children of that node were     *)
(* walked, and only in its has_subgraph flag and its label.                *)
StableAttrs(g) == [a \in DOMAIN g \ {"label", "has_subgraph"} |-> g[a]]

MainNodeKept(k) ==
    /\ StableAttrs(G'.nodes[k]) = StableAttrs(G.nodes[k])
    /\ G'.nodes[k] # G.nodes[k] =>
          /\ stack # <<>> /\ Top.fn = "walk"
          /\ tree[Top.node].nodeId = G.nodes[k].id
          /\ G.nodes[k].src = Top.node
          /\ \A c \in Range(tree[Top.node].pointingToNode) :
                ~RoleIsFunctionCall(c) =>
                    \E m \in 1..Len(calls) : calls[m].fn = "walk" /\ calls[m].node = c

C11_AppendOnly ==
    [][(DistinctIds /\ NoMainStartId) =>
          /\ Len(G.nodes) <= Len(G'.nodes)
          /\ \A k \in 1..Len(G.nodes) : MainNodeKept(k)
          /\ IsPrefix(G.edges, G'.edges)
          /\ SubgraphListsKept]_vars

\* walk has marked a main-graph node after its regular child was walked and
\* is collecting the second function-call branch of that node
C11_Witness ==
    /\ DistinctIds /\ NoMainStartId
    /\ stack # <<>> /\ stack[1].fn = "walk" /\ stack[1].pc = "await" /\ stack[1].j = 2
    /\ stack[1].regular_children # <<>>
    /\ stack[1].subgraph_data.nodes # <<>>
    /\ \E g \in Range(G.nodes) :
          g.src = stack[1].node /\ g.kind = "content" /\ g.has_subgraph

---------------------------------------------------------------------------
(* C12.  Original statement: sibling function-call branches stay apart:    *)
(* when a node has two or more function_call children, the branch of each  *)
(* child (entry node, content nodes, result node, edges) is stored in a    *)
(* SubgraphMap entry of its own, and no node list holds two branches.      *)
FunctionCallChildrenOf(i) ==
    SelectSeq(tree[i].pointingToNode, LAMBDA c : RoleIsFunctionCall(c))

\* every entry <<key, document>> of a SubgraphMap, the nested ones included
RECURSIVE EntriesIn(_)
EntriesIn(map) ==
    UNION {{<<key, map[key]>>} \cup EntriesIn(map[key].subgraphs) : key \in DOMAIN map}

HoldsBranch(d, c) == \E g \in Range(d.nodes) : g.kind = "entry" /\ g.src = c

C12_Original ==
    Done =>
        \A i \in 1..N : \A c1, c2 \in Range(FunctionCallChildrenOf(i)) :
            c1 # c2 =>
                /\ \E e \in EntriesIn(function_call_subgraphs) : HoldsBranch(e[2], c1)
                /\ \A e \in EntriesIn(function_call_subgraphs) :
                      ~(HoldsBranch(e[2], c1) /\ HoldsBranch(e[2], c2))

(* C12.  Amended statement: for an input tree with pairwise distinct       *)
(* nodeIds, when a node has two or more function_call children, their      *)
(* branches are concatenated in pointingToNode order into the one          *)
(* SubgraphMap entry stored under the id of that node: its node list holds *)
(* the entry node and the content node of every such child, and the result *)
(* node of every such child that has a toolResult, and its edge list the   *)
(* edge from each entry node; a child has an entry under its own id only   *)
(* when it has function_call children itself.                              *)
EntrySources(nodes) ==
    LET s == SelectSeq(nodes, LAMBDA g : g.kind = "entry")
    IN  [k \in 1..Len(s) |-> s[k].src]

BranchIn(d, c) ==
    /\ \E g \in Range(d.nodes) : g.kind = "content" /\ g.src = c
    /\ HasToolResult(c) => \E g \in Range(d.nodes) : g.kind = "result" /\ g.src = c
    /\ \E e \in Range(d.edges) :
          e.from = "START_" \o tree[c].nodeId /\ e.to = tree[c].nodeId

C12_SiblingBranchesShareEntry ==
    (Done /\ DistinctIds) =>
        \A i \in 1..N : Len(FunctionCallChildrenOf(i)) >= 2 =>
            /\ \E e \in EntriesIn(function_call_subgraphs) : e[1] = tree[i].nodeId
            /\ \A e \in EntriesIn(function_call_subgraphs) :
                  e[1] = tree[i].nodeId =>
                     /\ EntrySources(e[2].nodes) = FunctionCallChildrenOf(i)
                     /\ \A c \in Range(FunctionCallChildrenOf(i)) : BranchIn(e[2], c)
            /\ \A c \in Range(FunctionCallChildrenOf(i)) :
                  (\E e \in EntriesIn(function_call_subgraphs) : e[1] = tree[c].nodeId)
                      = (FunctionCallChildrenOf(c) # <<>>)

\* a node with two function-call children, one of which has a toolResult
\* and a function-call child of its own
C12_Witness ==
    /\ Done /\ DistinctIds
    /\ \E i \in 1..N : \E c \in Range(FunctionCallChildrenOf(i)) :
          /\ Len(FunctionCallChildrenOf(i)) >= 2
          /\ HasToolResult(c)
          /\ FunctionCallChildrenOf(c) # <<>>

---------------------------------------------------------------------------
(* C13.  Original statement: for every input tree the main graph has a     *)
(* single entry point: exactly one node with role "start", whose id is     *)
(* MAIN_START, with no incoming edge and exactly one outgoing edge, whose  *)
(* target is the root of the input tree.                                   *)
StartNodes == {k \in 1..Len(G.nodes) : G.nodes[k].role = "start"}

C13_Original ==
    Done =>
        /\ Cardinality(StartNodes) = 1
        /\ \A k \in StartNodes : G.nodes[k].id = "MAIN_START"
        /\ \A e \in Range(G.edges) : e.to # "MAIN_START"
        /\ Cardinality({k \in 1..Len(G.edges) : G.edges[k].from = "MAIN_START"}) = 1
        /\ \A e \in Range(G.edges) : e.from = "MAIN_START" => e.to = tree[1].nodeId

---------------------------------------------------------------------------
(* C14.  Original statement: decomposition is total: for every finite      *)
(* input tree whose nodes have a nodeId and a pointingToNode list,         *)
(* build_networkx completes without raising an error, whatever the roles   *)
(* are, whether or not the optional fields are present and whether or not  *)
(* toolArgs parses as JSON; toolArgs that do not parse are shown as the    *)
(* raw text, truncated.                                                    *)
Contains(s, sub) ==
    \E k \in 0..(Len(s) - Len(sub)) : SubSeq(s, k + 1, k + Len(sub)) = sub

RawTruncated(s) == IF Len(s) > 40 THEN SubSeq(s, 1, 40) \o Ellipsis ELSE s

ShowsRawArgs(g) ==
    (/\ g.kind = "content"
     /\ RoleIsFunctionCall(g.src)
     /\ ToolArgsField(g.src) # ""
     /\ JsonLoads(ToolArgsField(g.src)) = None)
        => Contains(g.label, RawTruncated(ToolArgsField(g.src)))

C14_Original ==
    /\ phase # "error"
    /\ Done => \A d \in Documents : \A g \in Range(d.nodes) : ShowsRawArgs(g)

---------------------------------------------------------------------------
(* C15.  For every finite input tree build_networkx terminates: walk and   *)
(* build_subgraph are never invoked twice on an input node, every          *)
(* recursive call is made on a child of the node the calling activation    *)
(* processes, a run that returns has invoked exactly one of them on every  *)
(* input node, and every run comes to an end: a natural number bounds the  *)
(* steps left and decreases with every step, and no activation waits for   *)
(* a return value that does not come.                                      *)
CallsFollowTree ==
    /\ \A m, n \in 1..Len(calls) : m # n => calls[m].node # calls[n].node
    /\ \A m \in 1..Len(calls) :
          IF m = 1
          THEN calls[m].fn = "walk" /\ calls[m].node = 1
          ELSE /\ calls[m].node \in Range(tree[calls[m].by].pointingToNode)
               /\ \E n \in 1..(m - 1) : calls[n].node = calls[m].by
    /\ \A k \in 1..Len(stack) : \E m \in 1..Len(calls) :
          calls[m].node = stack[k].node /\ calls[m].fn = stack[k].fn
    /\ \A k \in 2..Len(stack) :
          stack[k].node \in Range(tree[stack[k - 1].node].pointingToNode)
    /\ Done => {calls[m].node : m \in 1..Len(calls)} = 1..N

\* the steps an activation has still to take itself, calls not counted
OwnStepsLeft(f) ==
    LET nfc  == Len(FunctionCallChildrenOf(f.node))
        nreg == Len(tree[f.node].pointingToNode) - nfc
    IN  IF f.fn = "walk"
        THEN CASE f.pc = "enter" -> nfc + 3
               [] f.pc = "loop"  -> nfc + 2
               [] OTHER          -> (nfc - f.j + 1) + 1
        ELSE CASE f.pc = "enter" -> nreg + nfc + 2
               [] OTHER          -> (nreg - f.i + 1) + (nfc - f.j + 1) + 1

RECURSIVE StackStepsLeft(_)
StackStepsLeft(k) == IF k = 0 THEN 0 ELSE OwnStepsLeft(stack[k]) + StackStepsLeft(k - 1)

\* a natural number that bounds the steps a run has still to take: every
\* input node not yet called weighs more than the steps of one activation
StepsLeft ==
    CASE phase = "init"    -> (N + 4) * (N + 1) + 2
      [] phase = "running" -> (N + 4) * (N - Len(calls)) + StackStepsLeft(Len(stack)) + 2
      [] phase = "done"    -> 1
      [] OTHER             -> 0

\* an activation that waits for a call to return has its return value
\* when it runs again
NoneStuck ==
    (phase = "running" /\ stack # <<>> /\ Top.pc \notin {"enter", "loop", "fc"})
        => ret # None

C15_Terminates ==
    /\ [](CallsFollowTree /\ NoneStuck /\ StepsLeft >= 0)
    /\ [][StepsLeft' < StepsLeft]_vars

\* a run has returned after walk and build_subgraph went two levels deep each
C15_Witness ==
    /\ Done
    /\ \E m, n \in 1..Len(calls) :
          /\ calls[m].fn = "walk" /\ calls[m].by # 0
          /\ calls[n].fn = "build_subgraph"
          /\ calls[n].parent # None

---------------------------------------------------------------------------
(* C17.  Result-edge source: when build_subgraph returns for a             *)
(* function_call node with a non-empty toolResult, the edge into the       *)
(* result node starts at the node's own id if the node has no regular      *)
(* children, and otherwise at the id of the last node of the list that the *)
(* call on the last regular child (in pointingToNode order) returned;      *)
(* function_call children do not move the attachment point.                *)
RegularChildrenOf(i) ==
    SelectSeq(tree[i].pointingToNode, LAMBDA c : ~RoleIsFunctionCall(c))

\* the id of the last node of the list that build_subgraph returns for node i
RECURSIVE LastReturnedId(_)
LastReturnedId(i) ==
    IF HasToolResult(i)
    THEN tree[i].nodeId \o "_result"
    ELSE IF RegularChildrenOf(i) = <<>>
         THEN tree[i].nodeId
         ELSE LastReturnedId(RegularChildrenOf(i)[Len(RegularChildrenOf(i))])

C17_ResultEdgeSource ==
    (ret # None /\ HasToolResult(ret[1].node)) =>
        LET r   == ret[1]
            reg == RegularChildrenOf(r.node)
            e   == r.edges[Len(r.edges)]
        IN  /\ e.to = tree[r.node].nodeId \o "_result"
            /\ e.from = IF reg = <<>> THEN tree[r.node].nodeId
                                      ELSE LastReturnedId(reg[Len(reg)])

\* the call returns for a function call with a toolResult and two children
\* or more, whose last regular child has a regular child itself
C17_Witness ==
    /\ ret # None
    /\ HasToolResult(ret[1].node)
    /\ Len(tree[ret[1].node].pointingToNode) >= 2
    /\ RegularChildrenOf(ret[1].node) # <<>>
    /\ LET reg == RegularChildrenOf(ret[1].node)
       IN  RegularChildrenOf(reg[Len(reg)]) # <<>>

---------------------------------------------------------------------------
(* C18.  In the sub-graph documents the edge that build_subgraph appends   *)
(* from a parent to a child is dashed exactly when the name of the parent  *)
(* differs from the name of the child (solid when they are equal, both     *)
(* empty included); the edge from an entry node and the edge into a result *)
(* node are solid, so every dashed edge is such a parent-to-child edge     *)
(* across a change of name.                                                *)
NameField(i) == IF "name" \in DOMAIN tree[i] THEN tree[i].name ELSE ""

\* build_subgraph was called on input node c with a parent that has an edge
BuiltUnderParent(c) ==
    \E m \in 1..Len(calls) :
        /\ calls[m].fn = "build_subgraph" /\ calls[m].node = c
        /\ calls[m].parent # None /\ calls[m].parent[1] # ""

Built(c) == \E m \in 1..Len(calls) : calls[m].fn = "build_subgraph" /\ calls[m].node = c

DocEdges == UNION {Range(d.edges) : d \in AllDocs}

\* the first edge of the list of one build_subgraph activation
FirstEdgeRule(f) ==
    LET c == f.node
    IN  IF f.parent = None
        THEN /\ f.edges # <<>>
             /\ f.edges[1].from = "START_" \o tree[c].nodeId
             /\ f.edges[1].to = tree[c].nodeId
             /\ ~f.edges[1].dashes
        ELSE f.parent[1] # "" =>
                /\ f.edges # <<>>
                /\ f.parent[1] = tree[ParentOf(c)].nodeId
                /\ f.edges[1].from = f.parent[1]
                /\ f.edges[1].to = tree[c].nodeId
                /\ f.edges[1].dashes = (NameField(ParentOf(c)) # NameField(c))

C18_DashedIffNameChange ==
    /\ \A k \in 1..Len(stack) :
          (stack[k].fn = "build_subgraph" /\ stack[k].pc # "enter")
              => FirstEdgeRule(stack[k])
    /\ ret # None =>
          /\ FirstEdgeRule(ret[1])
          /\ HasToolResult(ret[1].node) => ~ret[1].edges[Len(ret[1].edges)].dashes
    /\ Done =>
          \A e \in DocEdges : e.dashes =>
              \E c \in 2..N :
                  /\ BuiltUnderParent(c)
                  /\ e.from = tree[ParentOf(c)].nodeId /\ e.to = tree[c].nodeId
                  /\ NameField(ParentOf(c)) # NameField(c)

\* a document holds a dashed edge, and a parent and its child are both
\* without a name in a sub-graph
C18_Witness ==
    /\ Done
    /\ \E e \in DocEdges : e.dashes
    /\ \E c \in 2..N :
          BuiltUnderParent(c) /\ NameField(c) = "" /\ NameField(ParentOf(c)) = ""
    /\ \E c \in 2..N : Built(c) /\ HasToolResult(c)

---------------------------------------------------------------------------
(* C19.  Original statement: every edge of the main graph is solid: no     *)
(* main-graph edge handed to the renderer is dashed, whatever the names of *)
(* its two end nodes, the edge from the main entry node to the root        *)
(* included.                                                               *)
Rendered == phase = "rendered"

IsDashed(e) == "dashes" \in DOMAIN e /\ e.dashes

C19_Original == Rendered => \A e \in Range(edges_data) : ~IsDashed(e)

(* C19.  Amended statement: walk adds the edges of the main graph without  *)
(* any dash attribute; of the edges handed to the renderer, one per edge   *)
(* of the main graph and in the same order, an edge is dashed exactly when *)
(* the names of its two end nodes in the main graph differ.                *)
EndNamesDiffer(e) ==
    \E n, m \in Range(G.nodes) : n.id = e.from /\ m.id = e.to /\ n.name # m.name

C19_MainEdgesDashedByName ==
    /\ \A e \in Range(G.edges) : DOMAIN e = {"from", "to"}
    /\ Rendered =>
          /\ Len(edges_data) = Len(G.edges)
          /\ \A k \in 1..Len(G.edges) :
                /\ edges_data[k].from = G.edges[k].from
                /\ edges_data[k].to = G.edges[k].to
                /\ IsDashed(edges_data[k]) = EndNamesDiffer(G.edges[k])

\* the renderer got a dashed edge from the entry node, a dashed edge
\* between two input nodes and an edge that is not dashed
C19_Witness ==
    /\ Rendered
    /\ \E e \in Range(edges_data) : e.from = "MAIN_START" /\ IsDashed(e)
    /\ \E e \in Range(edges_data) : e.from # "MAIN_START" /\ IsDashed(e)
    /\ \E e \in Range(edges_data) : ~IsDashed(e)

---------------------------------------------------------------------------
(* C20.  Original statement: whenever walk or build_subgraph is invoked    *)
(* with a parent id that is not null (any string, the empty string         *)
(* included), the edge from the parent to the node is appended to the      *)
(* document that receives the node; it is left out only for a null parent. *)
HasParentEdge(edges, call) ==
    \E e \in Range(edges) :
        e.from = call.parent[1] /\ e.to = tree[call.node].nodeId

C20_Original ==
    /\ \A k \in 1..Len(stack) :
          (stack[k].fn = "build_subgraph" /\ stack[k].pc # "enter")
              => (stack[k].parent # None => HasParentEdge(stack[k].edges, stack[k]))
    /\ Done => \A m \in 1..Len(calls) :
          (calls[m].fn = "walk" /\ calls[m].parent # None)
              => HasParentEdge(G.edges, calls[m])


---------------------------------------------------------------------------
(* C21.  Original statement: for every graph node built from an input      *)
(* node, in the main graph and in every sub-graph document, the label      *)
(* contains the toolUse marker line if and only if hasSubgraph is true;    *)
(* when present, the marker comes after the role line and any Tool line    *)
(* and before the name line and the value.                                 *)
\* str.split("\n"): the lines of a label
SplitLines(s) ==
    LET nl     == {k \in 1..Len(s) : SubSeq(s, k, k) = "\n"}
        n      == Cardinality(nl)
        cut(j) == IF j = 0 THEN 0
                  ELSE IF j > n THEN Len(s) + 1
                  ELSE CHOOSE k \in nl : Cardinality({h \in nl : h < k}) = j - 1
    IN  [j \in 1..(n + 1) |->
            IF cut(j - 1) + 1 > cut(j) - 1 THEN ""
            ELSE SubSeq(s, cut(j - 1) + 1, cut(j) - 1)]

MarkerLines(label) ==
    LET ls == SplitLines(label)
    IN  {k \in 1..Len(ls) : ls[k] = ToolUseMarker}

RoleField(i) == IF "role" \in DOMAIN tree[i] THEN tree[i].role ELSE "unknown"

\* the marker line stands after the role line and the Tool line and before
\* the name line and the value `shown`
MarkerPlaced(label, i, shown) ==
    LET ls == SplitLines(label)
    IN  \A m \in MarkerLines(label) :
            /\ m > 1
            /\ ls[1] = "<b>" \o Upper(RoleField(i)) \o "</b>"
            /\ \A k \in 1..Len(ls) : IsPrefix("<b>Tool: ", ls[k]) => k < m
            /\ NameField(i) # ""
                => \E k \in (m + 1)..Len(ls) :
                        ls[k] = "<i>" \o NameField(i) \o "</i>"
            /\ \A k \in 1..Len(ls) : IsPrefix("<i>", ls[k]) => k > m
            /\ shown # ""
                => m < Len(ls) /\ ls[Len(ls)] = RawTruncated(shown)

\* the text a sub-graph document shows as the value of input node i
ShownInSubgraph(i) ==
    IF RoleIsFunctionCall(i) THEN ToolArgsField(i) ELSE ValueField(i)

MarkerRule(g, shown) ==
    /\ (MarkerLines(g.label) # {}) = Get(g, "has_subgraph", FALSE)
    /\ MarkerPlaced(g.label, g.src, shown)

MarkerRuleEverywhere ==
    /\ Done
        => /\ \A g \in Range(G.nodes) :
                g.kind = "content" => MarkerRule(g, ValueField(g.src))
           /\ \A d \in AllDocs : \A g \in Range(d.nodes) :
                g.kind = "content" => MarkerRule(g, ShownInSubgraph(g.src))
    /\ Rendered
        => \A k \in 1..Len(nodes_data) :
                G.nodes[k].kind = "content"
                    => /\ (MarkerLines(nodes_data[k].label) # {})
                            = nodes_data[k].has_subgraph
                       /\ MarkerPlaced(nodes_data[k].label, G.nodes[k].src,
                                       ValueField(G.nodes[k].src))

C21_Original == MarkerRuleEverywhere

\* C21, amended: when the nodeIds of the input are pairwise distinct, the
\* label of every graph node built from an input node, in the main graph as
\* built and as handed to the renderer and in every sub-graph document,
\* contains the marker line exactly when has_subgraph is true, and the
\* marker stands after the role line and the Tool line and before the name
\* line and the value.
C21_MarkerIffHasSubgraph == DistinctIds => MarkerRuleEverywhere


C21_Witness ==
    /\ Done
    /\ DistinctIds
    /\ \E g \in Range(G.nodes) :
            /\ g.kind = "content"
            /\ g.has_subgraph
            /\ \E m \in MarkerLines(g.label) :
                    /\ m > 2
                    /\ m < Len(SplitLines(g.label))
    /\ \E g \in Range(G.nodes) :
            g.kind = "content" /\ ~g.has_subgraph /\ MarkerLines(g.label) = {}
    /\ \E d \in AllDocs :
            /\ \E g \in Range(d.nodes) :
                    /\ g.kind = "content"
                    /\ g.has_subgraph
                    /\ NameField(g.src) # ""
                    /\ 3 \in MarkerLines(g.label)
            /\ \E g \in Range(d.nodes) :
                    /\ g.kind = "content"
                    /\ ~g.has_subgraph
                    /\ MarkerLines(g.label) = {}


---------------------------------------------------------------------------
(* C22.  Original statement: for every function_call node with a non-empty *)
(* toolArgs, in the main graph and in every sub-graph document, the        *)
(* tool-argument text shown in the label is the compact re-serialization   *)
(* of toolArgs truncated to 40 characters when toolArgs parses as          *)
(* structured data, and the raw toolArgs truncated to 40 characters when   *)
(* it does not parse.                                                      *)
ExpectedArgsText(i) ==
    IF JsonLoads(ToolArgsField(i)) # None
    THEN RawTruncated(JsonDumps(JsonLoads(ToolArgsField(i))[1]))
    ELSE RawTruncated(ToolArgsField(i))

\* the lines of a label that show tool arguments: the Args line of walk,
\* and the value line that build_subgraph fills with toolArgs
ShowsArgsText(label, text) ==
    \E l \in Range(SplitLines(label)) :
        l = text \/ l = "<b>Args: " \o text \o "</b>"

HasToolArgs(g) ==
    /\ g.kind = "content"
    /\ RoleIsFunctionCall(g.src)
    /\ ToolArgsField(g.src) # ""

ArgsShownCompact(nodes) ==
    \A g \in Range(nodes) :
        HasToolArgs(g) => ShowsArgsText(g.label, ExpectedArgsText(g.src))

C22_Original ==
    Done => \A d \in Documents : ArgsShownCompact(d.nodes)

\* what holds instead, for distinct nodeIds: the main graph shows the
\* compact text, a sub-graph document shows the raw text
C22_MainCompactSubgraphRaw ==
    (Done /\ DistinctIds)
        => /\ ArgsShownCompact(G.nodes)
           /\ \A d \in AllDocs : \A g \in Range(d.nodes) :
                HasToolArgs(g)
                    => ShowsArgsText(g.label, RawTruncated(ToolArgsField(g.src)))


---------------------------------------------------------------------------
(* C23.  For any input tree with pairwise-distinct nodeIds, every input    *)
(* node yields exactly one content graph node, with id equal to its        *)
(* nodeId, in exactly one document among the main graph and all nested     *)
(* sub-graph documents: no input node is dropped, none appears in two      *)
(* documents or twice in one.                                              *)
ContentPlaces(id) ==
    UNION {{<<d, k>> : k \in {h \in 1..Len(d.nodes) :
                                /\ d.nodes[h].kind = "content"
                                /\ d.nodes[h].id = id}} : d \in Documents}

C23_EachNodeOnce ==
    (Done /\ DistinctIds)
        => /\ \A i \in 1..N : Cardinality(ContentPlaces(tree[i].nodeId)) = 1
           /\ \A d \in Documents : \A g \in Range(d.nodes) :
                g.kind = "content" => \E i \in 1..N : g.id = tree[i].nodeId


\* a run on distinct ids that ends with input nodes in the main graph, in a
\* sub-graph document and in a nested one
C23_Witness ==
    /\ Done
    /\ DistinctIds
    /\ N >= 4
    /\ \E i \in 2..N : ContentPlaces(tree[i].nodeId) \cap
            {<<[nodes |-> G.nodes, edges |-> G.edges], k>> : k \in 1..Len(G.nodes)} # {}
    /\ \E k \in DOMAIN function_call_subgraphs :
            /\ Len(function_call_subgraphs[k].nodes) > 2
            /\ function_call_subgraphs[k].subgraphs # EmptyMap


---------------------------------------------------------------------------
(* C24.  The content nodes of the main graph are exactly the input nodes   *)
(* reachable from the root through regular (non-function_call) children    *)
(* only; a function_call child of any node is never added to the main      *)
(* graph as a node and is never the target of a main-graph edge: it        *)
(* appears only inside the sub-graph document keyed by its parent's id.    *)
MainContent == {g \in Range(G.nodes) : g.kind = "content"}

FunctionCallChildNodes == {c \in 2..N : RoleIsFunctionCall(c)}

RegularIds == {tree[i].nodeId : i \in RegularClosure(1)}

C24_MainGraphIsRegularClosure ==
    /\ \A g \in MainContent : g.src \in RegularClosure(1) /\ g.id = tree[g.src].nodeId
    /\ \A e \in Range(G.edges) : e.to \in RegularIds
    /\ \A m \in 1..Len(calls) :
            calls[m].fn = "walk" => calls[m].node \notin FunctionCallChildNodes
    /\ Done => {g.id : g \in MainContent} = RegularIds
    /\ (Done /\ DistinctIds)
            => \A c \in FunctionCallChildNodes :
                /\ \A g \in MainContent : g.id # tree[c].nodeId
                /\ \A e \in Range(G.edges) : e.to # tree[c].nodeId
    /\ Done
            => \A c \in FunctionCallChildNodes : \A kd \in EntriesIn(function_call_subgraphs) :
                (\E g \in Range(kd[2].nodes) : g.kind = "content" /\ g.src = c)
                    => kd[1] = tree[ParentOf(c)].nodeId

\* a run that ends with regular children in the main graph and with
\* function_call children, of the root and of a deeper node, kept out of it
C24_Witness ==
    /\ Done
    /\ DistinctIds
    /\ Cardinality(MainContent) >= 3
    /\ \E c \in FunctionCallChildNodes : ParentOf(c) = 1
    /\ \E c \in FunctionCallChildNodes :
            ParentOf(c) # 1 /\ ParentOf(c) \in RegularClosure(1)


---------------------------------------------------------------------------
(* C25.  Original statement: for any input tree with pairwise-distinct     *)
(* nodeIds, the main graph and every sub-graph document is a forest rooted *)
(* at its entry nodes: both endpoints of every edge are ids of nodes in    *)
(* the same document, every non-entry node has exactly one incoming edge   *)
(* and entry nodes have none.                                              *)
IncomingEdges(d, id) == {k \in 1..Len(d.edges) : d.edges[k].to = id}

IsForest(d) ==
    /\ \A e \in Range(d.edges) :
            /\ \E g \in Range(d.nodes) : g.id = e.from
            /\ \E g \in Range(d.nodes) : g.id = e.to
    /\ \A g \in Range(d.nodes) :
            Cardinality(IncomingEdges(d, g.id)) = (IF g.kind = "entry" THEN 0 ELSE 1)

C25_Original == (Done /\ DistinctIds) => \A d \in Documents : IsForest(d)

\* no input nodeId is empty, is the id of the main entry node, or has the
\* form of a synthesized entry or result id
PlainIds ==
    \A i \in 1..N :
        /\ tree[i].nodeId # ""
        /\ tree[i].nodeId # MAIN_START
        /\ ~IsPrefix("START_", tree[i].nodeId)
        /\ ~IsSuffix("_result", tree[i].nodeId)

\* what holds instead: the property for inputs with plain ids
C25_ForestForPlainIds ==
    (Done /\ DistinctIds /\ PlainIds) => \A d \in Documents : IsForest(d)


---------------------------------------------------------------------------
(* C26.  Original statement: the source of every edge into a synthesized   *)
(* result node is either                                                   *)
(* the owning function-call node itself or a content node of the same      *)
(* sub-graph document that has no regular (non-function_call) children; it *)
(* is never an entry node, never another result node, and never a node     *)
(* that still has a regular child.                                         *)
\* the content nodes of a node list that may carry the result edge of the
\* function call `owner`
ResultEdgeSources(nodes, owner) ==
    {g \in Range(nodes) :
        /\ g.kind = "content"
        /\ g.src \in RegularClosure(owner)
        /\ g.id = tree[g.src].nodeId
        /\ \A c \in Range(tree[g.src].pointingToNode) : RoleIsFunctionCall(c)}

\* the nodes of a document that must not be the source of a result edge
NotResultEdgeSources(nodes) ==
    {g \in Range(nodes) :
        \/ g.kind \in {"entry", "result"}
        \/ \E c \in Range(tree[g.src].pointingToNode) : ~RoleIsFunctionCall(c)}

C26_Original ==
    Done
        => \A d \in AllDocs : \A e \in Range(d.edges) :
                (\E g \in Range(d.nodes) : g.kind = "result" /\ g.id = e.to)
                    => /\ \E g \in Range(d.nodes) :
                            /\ g.kind = "content"
                            /\ g.id = e.from
                            /\ \A c \in Range(tree[g.src].pointingToNode) :
                                    RoleIsFunctionCall(c)
                       /\ \A g \in NotResultEdgeSources(d.nodes) : g.id # e.from

\* what holds instead: the node that build_subgraph takes as the source is
\* the function call or the end of its chain of regular children, and for
\* distinct plain ids no other node of the document has the source's id
C26_ResultEdgeFromChainEnd ==
    /\ (ret # None /\ HasToolResult(ret[1].node))
        => LET r == ret[1]
               e == r.edges[Len(r.edges)]
           IN  /\ r.nodes[Len(r.nodes)].kind = "result"
               /\ e.to = r.nodes[Len(r.nodes)].id
               /\ \E g \in ResultEdgeSources(r.nodes, r.node) : g.id = e.from
    /\ (Done /\ DistinctIds /\ PlainIds)
        => \A d \in AllDocs : \A e \in Range(d.edges) :
                (\E g \in Range(d.nodes) : g.kind = "result" /\ g.id = e.to)
                    => /\ \E g \in Range(d.nodes) :
                            /\ g.kind = "content"
                            /\ g.id = e.from
                            /\ \A c \in Range(tree[g.src].pointingToNode) :
                                    RoleIsFunctionCall(c)
                       /\ \A g \in NotResultEdgeSources(d.nodes) : g.id # e.from

\* a document holds a result edge that starts at the function call itself
\* and one that starts at the end of a chain of regular children
C26_Witness ==
    /\ Done
    /\ DistinctIds
    /\ PlainIds
    /\ \E d \in AllDocs : \E g, h \in Range(d.nodes) :
            /\ g.kind = "result" /\ h.kind = "result"
            /\ \E e \in Range(d.edges) : e.to = g.id /\ e.from = tree[g.src].nodeId
            /\ \E e \in Range(d.edges) :
                    /\ e.to = h.id
                    /\ e.from # tree[h.src].nodeId
                    /\ \E c \in RegularClosure(h.src) :
                            /\ tree[c].nodeId = e.from
                            /\ ParentOf(c) # h.src


---------------------------------------------------------------------------
(* C27.  Original statement (the rendered page's modal navigation): after  *)
(* any sequence of pushModal, popModal, clearModalStack, choiceSubgraph    *)
(* and choiceFullContent events, every modal that is displayed has the     *)
(* type of some entry currently on the modal stack; in particular,         *)
(* whenever the modal stack is empty no modal is displayed, and popModal   *)
(* on an empty stack changes nothing.                                      *)
Displayed == {t \in ModalTypes : display[t]}

StackTypes == {modalStack[k].type : k \in 1..Len(modalStack)}

DisplayedOnStack ==
    /\ Displayed \subseteq StackTypes
    /\ modalStack = <<>> => Displayed = {}

PopOnEmptyChangesNothing ==
    (modalStack = <<>> /\ PopModal) => UNCHANGED <<modalStack, display, choiceNodeId>>

=============================================================================
